---- MODULE Spec2Model ----
(***************************************************************************)
(* cfdns: the reconciliation engine of pkg/cf (type CFDNS), its read/write *)
(* lock, its worker pool handle and the create-or-update task.             *)
(*                                                                         *)
(* Spec    one activity running cycles (Process; Wait), one activity       *)
(*         calling SetConfig concurrently, the pool's worker tasks and the *)
(*         cancellation of the context given to Process.                   *)
(* SpecCU  one create-or-update task (checkAndUpdate) run over every       *)
(*         record list, address and domain setting within the bounds.      *)
(* SpecDriver  func main: startup, the loop (Process, Wait, select), the   *)
(*         reload on a file change and the shutdown (Close), with the      *)
(*         file watcher's channel; fairness for the liveness properties.   *)
(*                                                                         *)
(* The worker pool (package goropo) and the Cloudflare client are          *)
(* libraries: a pool is a status and a worker count, a task of it is       *)
(* queued, running or done, and an API call is an outcome (success or      *)
(* error) chosen nondeterministically; a call made under a cancelled       *)
(* context fails.                                                          *)
(***************************************************************************)
EXTENDS Integers, Sequences, FiniteSets, TLC

VARIABLES
    mu,       \* CFDNS.mu: [r: readers holding RLock, w: writer holds, ww: writer waiting]
    cfdns,    \* CFDNS fields: cfg, api, httpClient, timeout, pool (+ cfgGen, history)
    gen,      \* number of API clients / pools constructed so far
    pools,    \* pools[p]: the pool with identity p: [st, workers]
    ctxDone,  \* the context given to Process has been cancelled
    proc,     \* the activity running Process and Wait: pc and locals
    setter,   \* the activity calling SetConfig: pc, argument, result
    tasks,    \* the tasks submitted to the pools, in submission order
    remote,   \* the provider's records: remote[<<hostname, type>>]
    cycle,    \* number of completed cycles (Process; Wait)
    drv,      \* the driver (func main): pc, its cfg variable, its watcher variable
    fw,       \* the configuration file, and watchFile's goroutine and channel
    ip        \* one call of ipget.getPublicIP: order, position, requests made

vars == <<mu, cfdns, gen, pools, ctxDone, proc, setter, tasks, remote, cycle,
          drv, fw, ip>>

(***************************************************************************)
(* Bounds                                                                  *)
(***************************************************************************)
MaxCycles == 2
MaxSwaps == 1
MaxRecs == 2
MaxPolls == 3
MaxMTime == 2

(***************************************************************************)
(* Values                                                                  *)
(***************************************************************************)
RECORD_TYPE_IPV4 == "A"
RECORD_TYPE_IPV6 == "AAAA"
Types == {RECORD_TYPE_IPV4, RECORD_TYPE_IPV6}

\* *bool: nil, or a pointer to true / false
Tri == {"nil", "true", "false"}

Contents == {"192.0.2.1", "192.0.2.2"}

Domain(h, p) == [Hostname |-> h, Proxied |-> p]

Config(zone, token, v4, v6, doms, workers, timeout, frequency) ==
    [ZoneID |-> zone, Token |-> token, IPv4 |-> v4, IPv6 |-> v6,
     Domains |-> doms, WorkerCount |-> workers, Timeout |-> timeout,
     Frequency |-> frequency]

CfgA == Config("z1", "t1", TRUE, FALSE, <<Domain("d1", "nil")>>, 1, 10, 3600)
CfgB == Config("z2", "t2", TRUE, TRUE, <<Domain("d1", "true")>>, 2, 5, 120)
CfgWrongZone == Config("z9", "t1", TRUE, FALSE, <<Domain("d1", "false")>>, 1, 10, 30)
CfgNoToken == Config("z1", "", TRUE, FALSE, <<Domain("d1", "nil")>>, 1, 10, 3600)

InitConfigs == {CfgA, CfgB}
Configs == {CfgA, CfgB, CfgWrongZone, CfgNoToken}

\* the zones the provider shows to a credential
ZonesVisible(token) ==
    CASE token = "t1" -> {"z1"}
      [] token = "t2" -> {"z2"}
      [] OTHER -> {}

NilAPI == [gen |-> 0, token |-> ""]
NilPool == 0
NoDomain == Domain("", "nil")


(***************************************************************************)
(* sync.RWMutex: a waiting writer blocks new readers                       *)
(***************************************************************************)
RLockOK == ~mu.w /\ ~mu.ww

RLock == [mu EXCEPT !.r = @ + 1]

RUnlock(n) == [mu EXCEPT !.r = @ - n]

(***************************************************************************)
(* Pool and tasks                                                          *)
(***************************************************************************)
NewPool(workers) == [st |-> "open", workers |-> workers]

\* goropo.Submit: the task is queued; a pool that is closed or aborted admits
\* nothing and the future resolves with an error
Submit(p, kind, api, dom, type, addr) ==
    [kind |-> kind, pool |-> p, api |-> api, dom |-> dom, type |-> type,
     addr |-> addr,
     st |-> IF pools[p].st = "open" THEN "queued" ELSE "done",
     res |-> IF pools[p].st = "open" THEN "" ELSE "err",
     val |-> {}, recs |-> <<>>, i |-> 0, calls |-> <<>>, ld |-> <<>>]

Pending(t) == t.st # "done"

Running(p) ==
    Cardinality({i \in DOMAIN tasks :
                    tasks[i].pool = p /\ tasks[i].st \notin {"queued", "done"}})

\* pool.WaitIdle returns when nothing submitted to the pool is queued or running
PoolIdle(p) == \A i \in DOMAIN tasks : tasks[i].pool = p => ~Pending(tasks[i])

\* Future.Await(ctx) returns when the task is done or ctx is cancelled
AwaitOK(f) == tasks[f].st = "done" \/ ctxDone

Finish(t, res, val) == [t EXCEPT !.st = "done", !.res = res, !.val = val]

(***************************************************************************)
(* NewCFDNS: SetConfig on an empty instance                                *)
(***************************************************************************)
\* a CFDNS value before SetConfig has run on it
EmptyCFDNS ==
    [cfg |-> Config("", "", FALSE, FALSE, <<>>, 0, 0, 0), cfgGen |-> 0,
     api |-> NilAPI, httpClient |-> 0, timeout |-> 0, pool |-> NilPool]

\* NewCFDNS: the instance it returns.  SetConfig fails, leaving the instance
\* empty, when cloudflare.NewWithAPIToken rejects the token (an empty one);
\* NewCFDNS drops that error
NewCFDNS(c) ==
    IF c.Token = "" THEN EmptyCFDNS
    ELSE [cfg |-> c, cfgGen |-> 1, api |-> [gen |-> 1, token |-> c.Token],
          httpClient |-> c.Timeout, timeout |-> c.Timeout, pool |-> 1]

\* the error NewCFDNS returns
NewCFDNS_Err(c) == "nil"

Snapshot == <<cfdns, pools>>

IdleProc ==
    [pc |-> "idle", pool |-> NilPool, api |-> NilAPI, zoneID |-> "",
     fz |-> 0, f4 |-> 0, f6 |-> 0, ipv4 |-> "", ipv6 |-> "", futs |-> {}]

IdleSetter ==
    [pc |-> "idle", arg |-> <<>>, ret |-> "", n |-> 0, began |-> 0,
     prev |-> <<>>]

\* the driver before main runs: cfg is main's variable (<<>>: not loaded),
\* watcher its channel variable, done the cycles its select has followed, sets
\* the SetConfig calls it has seen return, failed the reloads that failed
NoDriver ==
    [pc |-> "none", cfg |-> <<>>, cfgNew |-> <<>>, watcher |-> "nil",
     done |-> 0, sets |-> 0, failed |-> 0]

\* no configuration file is watched: file is the content (<<>>: unreadable),
\* dirty says the file changed since the signature the watcher holds, ch is
\* the number of notifications in the channel (capacity 1)
NoFile ==
    [file |-> <<>>, edits |-> 0, dirty |-> FALSE, running |-> FALSE,
     ch |-> 0, closed |-> FALSE]

\* no call of getPublicIP is modelled
NoIP == [pc |-> "none"]

NoRecords == [k \in {"d1"} \X Types |-> <<>>]

\* one record of the provider: identifier, content, proxied (*bool)
Rec(id, content, proxied) == [ID |-> id, Content |-> content, Proxied |-> proxied]

TwoStale ==
    [k \in {"d1"} \X Types |->
        <<Rec(1, "192.0.2.9", "nil"), Rec(2, "192.0.2.9", "false")>>]

Init ==
    /\ mu = [r |-> 0, w |-> FALSE, ww |-> FALSE]
    /\ \E c \in InitConfigs :
          /\ cfdns = NewCFDNS(c)
          /\ pools = <<NewPool(c.WorkerCount)>>
    /\ gen = 1
    /\ ctxDone = FALSE
    /\ proc = IdleProc
    /\ setter = IdleSetter
    /\ tasks = <<>>
    /\ remote \in {NoRecords, TwoStale}
    /\ cycle = 0
    /\ drv = NoDriver
    /\ fw = NoFile
    /\ ip = NoIP

(***************************************************************************)
(* CFDNS.SetConfig                                                         *)
(***************************************************************************)
\* the cycle running when the call begins (0: none)
ActiveCycle == IF proc.pc = "idle" THEN 0 ELSE cycle + 1

\* SetConfig(nil): nothing is done and nil is returned
SetConfig_Nil ==
    /\ setter.pc = "idle"
    /\ setter.n < MaxSwaps
    /\ setter' = [setter EXCEPT !.arg = <<>>, !.ret = "nil", !.n = @ + 1,
                                !.began = ActiveCycle, !.prev = Snapshot]
    /\ UNCHANGED <<mu, cfdns, gen, pools, ctxDone, proc, tasks, remote, cycle, drv, fw, ip>>

\* SetConfig(&c), c not nil: cfdns.mu.Lock() is called, the writer waits for the
\* readers to leave
SetConfig_Begin(c) ==
    /\ setter.pc = "idle"
    /\ setter.n < MaxSwaps
    /\ ~mu.ww /\ ~mu.w
    /\ setter' = [setter EXCEPT !.pc = "lock", !.arg = <<c>>, !.ret = "",
                                !.n = @ + 1, !.began = ActiveCycle,
                                !.prev = Snapshot]
    /\ mu' = [mu EXCEPT !.ww = TRUE]
    /\ UNCHANGED <<cfdns, gen, pools, ctxDone, proc, tasks, remote, cycle, drv, fw, ip>>

\* a caller of SetConfig, with any configuration
SetConfig_Lock == \E c \in Configs : SetConfig_Begin(c)

SetConfig_Acquire ==
    /\ setter.pc = "lock"
    /\ mu.r = 0 /\ ~mu.w
    /\ mu' = [mu EXCEPT !.w = TRUE, !.ww = FALSE]
    /\ setter' = [setter EXCEPT !.pc = "newapi"]
    /\ UNCHANGED <<cfdns, gen, pools, ctxDone, proc, tasks, remote, cycle, drv, fw, ip>>

\* mutant: the new client is not installed before the previous pool is closed
SetConfig_NewAPI_ClientLater ==
    /\ setter.pc = "newapi"
    /\ LET c == setter.arg[1] IN
         IF c.Token = ""
         THEN /\ setter' = [setter EXCEPT !.pc = "idle", !.ret = "err"]
              /\ mu' = [mu EXCEPT !.w = FALSE]
              /\ UNCHANGED <<cfdns, gen>>
         ELSE /\ gen' = gen + 1
              /\ cfdns' = [cfdns EXCEPT !.httpClient = c.Timeout]
              /\ setter' = [setter EXCEPT !.pc = "close"]
              /\ UNCHANGED mu
    /\ UNCHANGED <<pools, ctxDone, proc, tasks, remote, cycle, drv, fw, ip>>

\* mutant: the result of NewWithAPIToken is stored before the error is checked
SetConfig_NewAPI_StoreFirst ==
    /\ setter.pc = "newapi"
    /\ LET c == setter.arg[1] IN
         IF c.Token = ""
         THEN /\ setter' = [setter EXCEPT !.pc = "idle", !.ret = "err"]
              /\ mu' = [mu EXCEPT !.w = FALSE]
              /\ cfdns' = [cfdns EXCEPT !.api = NilAPI]
              /\ UNCHANGED gen
         ELSE /\ gen' = gen + 1
              /\ cfdns' = [cfdns EXCEPT !.api = [gen |-> gen + 1, token |-> c.Token],
                                        !.httpClient = c.Timeout]
              /\ setter' = [setter EXCEPT !.pc = "close"]
              /\ UNCHANGED mu
    /\ UNCHANGED <<pools, ctxDone, proc, tasks, remote, cycle, drv, fw, ip>>

\* cloudflare.NewWithAPIToken fails on an empty token; otherwise the new client
\* and the HTTP client are installed
SetConfig_NewAPI ==
    /\ setter.pc = "newapi"
    /\ LET c == setter.arg[1] IN
         IF c.Token = ""
         THEN /\ setter' = [setter EXCEPT !.pc = "idle", !.ret = "err"]
              /\ mu' = [mu EXCEPT !.w = FALSE]
              /\ UNCHANGED <<cfdns, gen>>
         ELSE /\ gen' = gen + 1
              /\ cfdns' = [cfdns EXCEPT !.api = [gen |-> gen + 1, token |-> c.Token],
                                        !.httpClient = c.Timeout]
              /\ setter' = [setter EXCEPT !.pc = "close"]
              /\ UNCHANGED mu
    /\ UNCHANGED <<pools, ctxDone, proc, tasks, remote, cycle, drv, fw, ip>>

\* "close previous pool before replacing"
SetConfig_ClosePrev ==
    /\ setter.pc = "close"
    /\ pools' = IF cfdns.pool # NilPool
                THEN [pools EXCEPT ![cfdns.pool].st = "closed"]
                ELSE pools
    /\ setter' = [setter EXCEPT !.pc = "newpool"]
    /\ UNCHANGED <<mu, cfdns, gen, ctxDone, proc, tasks, remote, cycle, drv, fw, ip>>

SetConfig_NewPool ==
    /\ setter.pc = "newpool"
    /\ LET c == setter.arg[1] IN
         /\ pools' = Append(pools, NewPool(c.WorkerCount))
         /\ cfdns' = [cfdns EXCEPT !.timeout = c.Timeout, !.pool = Len(pools) + 1]
    /\ setter' = [setter EXCEPT !.pc = "setcfg"]
    /\ UNCHANGED <<mu, gen, ctxDone, proc, tasks, remote, cycle, drv, fw, ip>>

\* cfdns.cfg = *cfg, then the deferred Unlock
SetConfig_Install ==
    /\ setter.pc = "setcfg"
    /\ cfdns' = [cfdns EXCEPT !.cfg = setter.arg[1], !.cfgGen = gen]
    /\ mu' = [mu EXCEPT !.w = FALSE]
    /\ setter' = [setter EXCEPT !.pc = "idle", !.ret = "nil"]
    /\ UNCHANGED <<gen, pools, ctxDone, proc, tasks, remote, cycle, drv, fw, ip>>

(***************************************************************************)
(* CFDNS.Process and CFDNS.Wait: one cycle                                 *)
(***************************************************************************)
\* Process takes the read lock (released by the deferred RUnlock)
Process_RLock ==
    /\ proc.pc = "idle"
    /\ cycle < MaxCycles
    /\ RLockOK
    /\ mu' = RLock
    /\ proc' = [IdleProc EXCEPT !.pc = "zv"]
    /\ tasks' = SelectSeq(tasks, Pending)
    /\ UNCHANGED <<cfdns, gen, pools, ctxDone, setter, remote, cycle, drv, fw, ip>>

\* ZoneIsValid: takes the read lock again, reads pool, api and zone id, and
\* submits the zone listing
ZoneIsValid_Submit ==
    /\ proc.pc = "zv"
    /\ RLockOK
    /\ mu' = RLock
    /\ tasks' = Append(tasks, Submit(cfdns.pool, "zones", cfdns.api, NoDomain, "", ""))
    /\ proc' = [proc EXCEPT !.pc = "zvAwait", !.pool = cfdns.pool,
                            !.api = cfdns.api, !.zoneID = cfdns.cfg.ZoneID,
                            !.fz = Len(tasks) + 1]
    /\ UNCHANGED <<cfdns, gen, pools, ctxDone, setter, remote, cycle, drv, fw, ip>>

\* mutant: the outcome of the validation is ignored and the cycle goes on
ZoneIsValid_Await_Proceed ==
    /\ proc.pc = "zvAwait"
    /\ tasks[proc.fz].st = "done" \/ ctxDone
    /\ mu' = RUnlock(1)
    /\ proc' = [proc EXCEPT !.pc = "ips"]
    /\ UNCHANGED <<cfdns, gen, pools, ctxDone, setter, tasks, remote, cycle, drv, fw, ip>>

\* ZoneIsValid: the await returns, the read lock of ZoneIsValid is released;
\* on an error or a zone that is not listed Process returns (deferred RUnlock)
ZoneIsValid_Await ==
    /\ proc.pc = "zvAwait"
    /\ \E how \in {"task", "ctx"} :
          /\ how = "task" => tasks[proc.fz].st = "done"
          /\ how = "ctx" => ctxDone
          /\ LET t == tasks[proc.fz]
                 err == how = "ctx" \/ t.res = "err"
                 valid == ~err /\ proc.zoneID \in t.val
             IN IF valid
                THEN /\ mu' = RUnlock(1)
                     /\ proc' = [proc EXCEPT !.pc = "ips"]
                ELSE /\ mu' = RUnlock(2)
                     /\ proc' = [proc EXCEPT !.pc = "wait"]
    /\ UNCHANGED <<cfdns, gen, pools, ctxDone, setter, tasks, remote, cycle, drv, fw, ip>>

\* getPublicIPs: one resolution task per enabled family
GetPublicIPs_Submit ==
    /\ proc.pc = "ips"
    /\ LET t4 == IF cfdns.cfg.IPv4
                 THEN <<Submit(cfdns.pool, "ip", NilAPI, NoDomain, RECORD_TYPE_IPV4, "")>>
                 ELSE <<>>
           t6 == IF cfdns.cfg.IPv6
                 THEN <<Submit(cfdns.pool, "ip", NilAPI, NoDomain, RECORD_TYPE_IPV6, "")>>
                 ELSE <<>>
       IN /\ tasks' = tasks \o t4 \o t6
          /\ proc' = [proc EXCEPT
                        !.pc = "ipsAwait",
                        !.f4 = IF cfdns.cfg.IPv4 THEN Len(tasks) + 1 ELSE 0,
                        !.f6 = IF cfdns.cfg.IPv6 THEN Len(tasks) + Len(t4) + 1 ELSE 0]
    /\ UNCHANGED <<mu, cfdns, gen, pools, ctxDone, setter, remote, cycle, drv, fw, ip>>

\* what Await(ctx) of a resolution future can give: the address, or "" on error
Awaited(f) ==
    IF f = 0 THEN {""}
    ELSE {v \in {""} \cup tasks[f].val :
            \/ ctxDone /\ v = ""
            \/ /\ tasks[f].st = "done"
               /\ IF tasks[f].res = "err" THEN v = "" ELSE v \in tasks[f].val}

\* getPublicIPs: both futures are awaited in turn
GetPublicIPs_Await ==
    /\ proc.pc = "ipsAwait"
    /\ proc.f4 # 0 => AwaitOK(proc.f4)
    /\ proc.f6 # 0 => AwaitOK(proc.f6)
    /\ \E v4 \in Awaited(proc.f4), v6 \in Awaited(proc.f6) :
          proc' = [proc EXCEPT !.pc = "submit", !.ipv4 = v4, !.ipv6 = v6]
    /\ UNCHANGED <<mu, cfdns, gen, pools, ctxDone, setter, tasks, remote, cycle, drv, fw, ip>>

\* mutant: a task is submitted for every enabled family, resolved or not
RECURSIVE DomainTasks_NoCheck(_, _, _)
DomainTasks_NoCheck(k, ipv4, ipv6) ==
    IF k > Len(cfdns.cfg.Domains) THEN <<>>
    ELSE LET d == cfdns.cfg.Domains[k]
             t4 == IF cfdns.cfg.IPv4
                   THEN <<Submit(cfdns.pool, "cu", NilAPI, d, RECORD_TYPE_IPV4, ipv4)>>
                   ELSE <<>>
             t6 == IF cfdns.cfg.IPv6
                   THEN <<Submit(cfdns.pool, "cu", NilAPI, d, RECORD_TYPE_IPV6, ipv6)>>
                   ELSE <<>>
         IN t4 \o t6 \o DomainTasks_NoCheck(k + 1, ipv4, ipv6)

\* mutant: nothing is submitted unless every enabled family was resolved
RECURSIVE DomainTasks_AllOrNothing(_, _, _)
DomainTasks_AllOrNothing(k, ipv4, ipv6) ==
    IF k > Len(cfdns.cfg.Domains) THEN <<>>
    ELSE LET d == cfdns.cfg.Domains[k]
             all == /\ cfdns.cfg.IPv4 => ipv4 # ""
                    /\ cfdns.cfg.IPv6 => ipv6 # ""
             t4 == IF cfdns.cfg.IPv4 /\ all
                   THEN <<Submit(cfdns.pool, "cu", NilAPI, d, RECORD_TYPE_IPV4, ipv4)>>
                   ELSE <<>>
             t6 == IF cfdns.cfg.IPv6 /\ all
                   THEN <<Submit(cfdns.pool, "cu", NilAPI, d, RECORD_TYPE_IPV6, ipv6)>>
                   ELSE <<>>
         IN t4 \o t6 \o DomainTasks_AllOrNothing(k + 1, ipv4, ipv6)

\* the create-or-update tasks of the domains from index k on
RECURSIVE DomainTasks(_, _, _)
DomainTasks(k, ipv4, ipv6) ==
    IF k > Len(cfdns.cfg.Domains) THEN <<>>
    ELSE LET d == cfdns.cfg.Domains[k]
             t4 == IF cfdns.cfg.IPv4 /\ ipv4 # ""
                   THEN <<Submit(cfdns.pool, "cu", NilAPI, d, RECORD_TYPE_IPV4, ipv4)>>
                   ELSE <<>>
             t6 == IF cfdns.cfg.IPv6 /\ ipv6 # ""
                   THEN <<Submit(cfdns.pool, "cu", NilAPI, d, RECORD_TYPE_IPV6, ipv6)>>
                   ELSE <<>>
         IN t4 \o t6 \o DomainTasks(k + 1, ipv4, ipv6)

Process_Submit ==
    /\ proc.pc = "submit"
    /\ LET new == DomainTasks(1, proc.ipv4, proc.ipv6) IN
         /\ tasks' = tasks \o new
         /\ proc' = [proc EXCEPT !.pc = "awaitFuts",
                                 !.futs = (Len(tasks) + 1) .. (Len(tasks) + Len(new))]
    /\ UNCHANGED <<mu, cfdns, gen, pools, ctxDone, setter, remote, cycle, drv, fw, ip>>

\* mutant: Process returns at the first future that resolved with an error
Process_AwaitFuts_FailFast ==
    /\ proc.pc = "awaitFuts"
    /\ \/ \A f \in proc.futs : AwaitOK(f)
       \/ \E f \in proc.futs : tasks[f].st = "done" /\ tasks[f].res = "err"
    /\ mu' = RUnlock(1)
    /\ proc' = [proc EXCEPT !.pc = "wait"]
    /\ UNCHANGED <<cfdns, gen, pools, ctxDone, setter, tasks, remote, cycle, drv, fw, ip>>

\* mutant: the futures are awaited under a context that is never cancelled
Process_AwaitFuts_Background ==
    /\ proc.pc = "awaitFuts"
    /\ \A f \in proc.futs : tasks[f].st = "done"
    /\ mu' = RUnlock(1)
    /\ proc' = [proc EXCEPT !.pc = "wait"]
    /\ UNCHANGED <<cfdns, gen, pools, ctxDone, setter, tasks, remote, cycle, drv, fw, ip>>

\* every future is awaited under ctx, then the deferred RUnlock
Process_AwaitFuts ==
    /\ proc.pc = "awaitFuts"
    /\ \A f \in proc.futs : AwaitOK(f)
    /\ mu' = RUnlock(1)
    /\ proc' = [proc EXCEPT !.pc = "wait"]
    /\ UNCHANGED <<cfdns, gen, pools, ctxDone, setter, tasks, remote, cycle, drv, fw, ip>>

\* Wait: takes the read lock and reads the pool
Wait_RLock ==
    /\ proc.pc = "wait"
    /\ RLockOK
    /\ IF cfdns.pool = NilPool
       THEN /\ proc' = [proc EXCEPT !.pc = "idle"]
            /\ cycle' = cycle + 1
            /\ UNCHANGED mu
       ELSE /\ mu' = RLock
            /\ proc' = [proc EXCEPT !.pc = "waitIdle", !.pool = cfdns.pool]
            /\ UNCHANGED cycle
    /\ UNCHANGED <<cfdns, gen, pools, ctxDone, setter, tasks, remote, drv, fw, ip>>

\* Wait: pool.WaitIdle() returns, the read lock is released
Wait_Idle ==
    /\ proc.pc = "waitIdle"
    /\ PoolIdle(proc.pool)
    /\ mu' = RUnlock(1)
    /\ proc' = [proc EXCEPT !.pc = "idle"]
    /\ cycle' = cycle + 1
    /\ UNCHANGED <<cfdns, gen, pools, ctxDone, setter, tasks, remote, drv, fw, ip>>

\* the context given to Process is cancelled
Cancel ==
    /\ ~ctxDone
    /\ ctxDone' = TRUE
    /\ UNCHANGED <<mu, cfdns, gen, pools, proc, setter, tasks, remote, cycle, drv, fw, ip>>

(***************************************************************************)
(* The pool's workers                                                      *)
(***************************************************************************)
\* a free worker takes a queued task
Task_Start(i) ==
    /\ tasks[i].st = "queued"
    /\ pools[tasks[i].pool].st # "aborted"
    /\ Running(tasks[i].pool) < pools[tasks[i].pool].workers
    /\ tasks' = [tasks EXCEPT ![i].st = "run"]
    /\ UNCHANGED <<mu, cfdns, gen, pools, ctxDone, proc, setter, remote, cycle, drv, fw, ip>>

\* a queued task of a pool that was closed or aborted is given up: its future
\* resolves with an error
Task_Reject(i) ==
    /\ tasks[i].st = "queued"
    /\ pools[tasks[i].pool].st # "open"
    /\ tasks' = [tasks EXCEPT ![i] = Finish(@, "err", {})]
    /\ UNCHANGED <<mu, cfdns, gen, pools, ctxDone, proc, setter, remote, cycle, drv, fw, ip>>

\* an API or HTTP call succeeds or fails; under a cancelled context it fails
CallOutcomes == IF ctxDone THEN {FALSE} ELSE {TRUE, FALSE}

\* api.ListZones with the client ZoneIsValid read under its lock
Task_ListZones(i) ==
    /\ tasks[i].kind = "zones"
    /\ tasks[i].st = "run"
    /\ \E ok \in CallOutcomes :
          tasks' = [tasks EXCEPT ![i] =
                      IF ok THEN Finish(@, "ok", ZonesVisible(@.api.token))
                      ELSE Finish(@, "err", {})]
    /\ UNCHANGED <<mu, cfdns, gen, pools, ctxDone, proc, setter, remote, cycle, drv, fw, ip>>

\* ipget.GetPublicIPv4 / GetPublicIPv6: an address of the family, or an error
PublicIP(type) == IF type = RECORD_TYPE_IPV4 THEN "192.0.2.1" ELSE "2001:db8::1"

Task_GetPublicIP(i) ==
    /\ tasks[i].kind = "ip"
    /\ tasks[i].st = "run"
    /\ \E ok \in CallOutcomes :
          tasks' = [tasks EXCEPT ![i] =
                      IF ok THEN Finish(@, "ok", {PublicIP(@.type)})
                      ELSE Finish(@, "err", {})]
    /\ UNCHANGED <<mu, cfdns, gen, pools, ctxDone, proc, setter, remote, cycle, drv, fw, ip>>

(***************************************************************************)
(* CFDNS.checkAndUpdate, run by a worker                                   *)
(***************************************************************************)
\* the client and the zone id the instance holds now
Loaded == [api |-> cfdns.api.gen, zone |-> cfdns.cfg.ZoneID, zgen |-> cfdns.cfgGen]

\* a call to the provider, cfdns.api.<call>(ctx, ZoneIdentifier(cfdns.cfg.ZoneID),
\* ...).  Under the read lock (first = "lock") client and zone id are those
\* the instance holds.  Without the lock the two fields are loaded one after
\* the other, in an order the language leaves open, and a SetConfig may run
\* in between: the field loaded first (first = "api" or "zone") has the value
\* of the earlier load (t.ld), the other the value held now.
Call(op, t, first, id, content, proxied, ok) ==
    LET early == IF t.ld = <<>> THEN Loaded ELSE t.ld[1] IN
    [op |-> op, ok |-> ok,
     api |-> IF first = "api" THEN early.api ELSE Loaded.api,
     zone |-> IF first = "zone" THEN early.zone ELSE Loaded.zone,
     zgen |-> IF first = "zone" THEN early.zgen ELSE Loaded.zgen,
     host |-> t.dom.Hostname, type |-> t.type,
     id |-> id, content |-> content, proxied |-> proxied]

\* mutant: a nil proxied flag is compared like a value
Matches_Strict(record, domain, address) ==
    /\ record.Content = address
    /\ record.Proxied = domain.Proxied

\* mutant: only the content is compared
Matches_ContentOnly(record, domain, address) ==
    record.Content = address

\* the record needs no update: same content, and the proxied flags agree or one
\* of them is nil
Matches(record, domain, address) ==
    /\ record.Content = address
    /\ \/ record.Proxied = "nil"
       \/ domain.Proxied = "nil"
       \/ record.Proxied = domain.Proxied

\* getRecords: cfdns.mu.RLock()
GetRecords_RLock(i) ==
    /\ tasks[i].kind = "cu"
    /\ tasks[i].st = "run"
    /\ RLockOK
    /\ mu' = RLock
    /\ tasks' = [tasks EXCEPT ![i].st = "getRecords"]
    /\ UNCHANGED <<cfdns, gen, pools, ctxDone, proc, setter, remote, cycle, drv, fw, ip>>

\* getRecords: ListDNSRecords, then the deferred RUnlock; checkAndUpdate returns
\* on an error
GetRecords_List(i) ==
    /\ tasks[i].st = "getRecords"
    /\ mu' = RUnlock(1)
    /\ \E ok \in CallOutcomes :
          LET t == tasks[i]
              c == Call("list", t, "lock", 0, "", "nil", ok)
              records == remote[<<t.dom.Hostname, t.type>>]
          IN tasks' = [tasks EXCEPT ![i] =
                IF ~ok
                THEN [Finish(@, "err", {}) EXCEPT !.calls = Append(@, c)]
                ELSE [@ EXCEPT !.calls = Append(@, c), !.recs = records, !.i = 1,
                               !.st = IF Len(records) = 0 THEN "create" ELSE "loop"]]
    /\ UNCHANGED <<cfdns, gen, pools, ctxDone, proc, setter, remote, cycle, drv, fw, ip>>

\* the create or update call is being evaluated: the first of cfdns.api and
\* cfdns.cfg.ZoneID is loaded, without the lock
CheckAndUpdate_Load(i) ==
    /\ tasks[i].ld = <<>>
    /\ \/ tasks[i].st = "create"
       \/ /\ tasks[i].st = "loop"
          /\ ~Matches(tasks[i].recs[tasks[i].i], tasks[i].dom, tasks[i].addr)
    /\ tasks' = [tasks EXCEPT ![i].ld = <<Loaded>>]
    /\ UNCHANGED <<mu, cfdns, gen, pools, ctxDone, proc, setter, remote, cycle, drv, fw, ip>>

\* mutant: the record is created without the domain's proxied setting
CheckAndUpdate_Create_NoProxied(i) ==
    /\ tasks[i].st = "create"
    /\ tasks[i].ld # <<>>
    /\ \E ok \in CallOutcomes, first \in {"api", "zone"} :
          LET t == tasks[i]
              c == Call("create", t, first, 0, t.addr, "nil", ok)
          IN tasks' = [tasks EXCEPT ![i] =
                [Finish(@, IF ok THEN "ok" ELSE "err", {}) EXCEPT
                    !.calls = Append(@, c), !.ld = <<>>]]
    /\ UNCHANGED <<mu, cfdns, gen, pools, ctxDone, proc, setter, remote, cycle, drv, fw, ip>>

\* no records found: CreateDNSRecord, once the first of the two fields has been
\* loaded
CheckAndUpdate_Create(i) ==
    /\ tasks[i].st = "create"
    /\ tasks[i].ld # <<>>
    /\ \E ok \in CallOutcomes, first \in {"api", "zone"} :
          LET t == tasks[i]
              c == Call("create", t, first, 0, t.addr, t.dom.Proxied, ok)
          IN tasks' = [tasks EXCEPT ![i] =
                [Finish(@, IF ok THEN "ok" ELSE "err", {}) EXCEPT
                    !.calls = Append(@, c), !.ld = <<>>]]
    /\ UNCHANGED <<mu, cfdns, gen, pools, ctxDone, proc, setter, remote, cycle, drv, fw, ip>>

\* one iteration of the loop over the existing records: a record that matches
\* ends the task; otherwise UpdateDNSRecord, once the first of the two fields
\* has been loaded
CheckAndUpdate_Record(i) ==
    /\ tasks[i].st = "loop"
    /\ LET t == tasks[i]
           record == t.recs[t.i]
       IN IF Matches(record, t.dom, t.addr)
          THEN tasks' = [tasks EXCEPT ![i] = Finish(@, "ok", {})]
          ELSE /\ t.ld # <<>>
               /\ \E ok \in CallOutcomes, first \in {"api", "zone"} :
                    LET c == Call("update", t, first, record.ID, t.addr,
                                  t.dom.Proxied, ok) IN
                    tasks' = [tasks EXCEPT ![i] =
                       IF ~ok
                       THEN [Finish(@, "err", {}) EXCEPT
                               !.calls = Append(@, c), !.ld = <<>>]
                       ELSE IF t.i = Len(t.recs)
                       THEN [Finish(@, "ok", {}) EXCEPT
                               !.calls = Append(@, c), !.ld = <<>>]
                       ELSE [@ EXCEPT !.calls = Append(@, c), !.i = @ + 1,
                                      !.ld = <<>>]]
    /\ UNCHANGED <<mu, cfdns, gen, pools, ctxDone, proc, setter, remote, cycle, drv, fw, ip>>

Next ==
    \/ Process_RLock
    \/ ZoneIsValid_Submit
    \/ ZoneIsValid_Await
    \/ GetPublicIPs_Submit
    \/ GetPublicIPs_Await
    \/ Process_Submit
    \/ Process_AwaitFuts
    \/ Wait_RLock
    \/ Wait_Idle
    \/ Cancel
    \/ SetConfig_Nil
    \/ SetConfig_Lock
    \/ SetConfig_Acquire
    \/ SetConfig_NewAPI
    \/ SetConfig_ClosePrev
    \/ SetConfig_NewPool
    \/ SetConfig_Install
    \/ \E i \in DOMAIN tasks : Task_Start(i)
    \/ \E i \in DOMAIN tasks : Task_Reject(i)
    \/ \E i \in DOMAIN tasks : Task_ListZones(i)
    \/ \E i \in DOMAIN tasks : Task_GetPublicIP(i)
    \/ \E i \in DOMAIN tasks : GetRecords_RLock(i)
    \/ \E i \in DOMAIN tasks : GetRecords_List(i)
    \/ \E i \in DOMAIN tasks : CheckAndUpdate_Load(i)
    \/ \E i \in DOMAIN tasks : CheckAndUpdate_Create(i)
    \/ \E i \in DOMAIN tasks : CheckAndUpdate_Record(i)

Spec == Init /\ [][Next]_vars

(***************************************************************************)
(* SpecCU: one create-or-update task of a cycle, for every record list,    *)
(* address, record type and proxied setting within the bounds.  The cycle  *)
(* has submitted the task and awaits it.                                   *)
(***************************************************************************)
RecVals == [Content : Contents, Proxied : Tri]

RecordLists ==
    UNION {{[k \in 1..n |-> Rec(k, f[k].Content, f[k].Proxied)] :
              f \in [1..n -> RecVals]} : n \in 0..MaxRecs}

InitCU ==
    /\ mu = [r |-> 1, w |-> FALSE, ww |-> FALSE]
    /\ gen = 1
    /\ ctxDone = FALSE
    /\ setter = IdleSetter
    /\ cycle = 0
    /\ drv = NoDriver
    /\ fw = NoFile
    /\ ip = NoIP
    /\ \E dp \in Tri, ty \in Types, addr \in Contents, records \in RecordLists :
          LET c == Config("z1", "t1", ty = RECORD_TYPE_IPV4, ty = RECORD_TYPE_IPV6,
                          <<Domain("d1", dp)>>, 1, 10, 3600)
          IN /\ cfdns = NewCFDNS(c)
             /\ pools = <<NewPool(c.WorkerCount)>>
             /\ remote = [k \in {"d1"} \X Types |->
                            IF k[2] = ty THEN records ELSE <<>>]
             /\ tasks = <<Submit(1, "cu", NilAPI, c.Domains[1], ty, addr)>>
             /\ proc = [IdleProc EXCEPT
                          !.pc = "awaitFuts", !.futs = {1},
                          !.ipv4 = IF ty = RECORD_TYPE_IPV4 THEN addr ELSE "",
                          !.ipv6 = IF ty = RECORD_TYPE_IPV6 THEN addr ELSE ""]

NextCU ==
    \/ \E i \in DOMAIN tasks : Task_Start(i)
    \/ \E i \in DOMAIN tasks : GetRecords_RLock(i)
    \/ \E i \in DOMAIN tasks : GetRecords_List(i)
    \/ \E i \in DOMAIN tasks : CheckAndUpdate_Load(i)
    \/ \E i \in DOMAIN tasks : CheckAndUpdate_Create(i)
    \/ \E i \in DOMAIN tasks : CheckAndUpdate_Record(i)
    \/ Process_AwaitFuts
    \/ Wait_RLock
    \/ Wait_Idle

SpecCU == InitCU /\ [][NextCU]_vars

(***************************************************************************)
(* SpecDriver: func main.  The driver loads the configuration, builds the  *)
(* instance, starts the file watcher and loops: Process, Wait, then a      *)
(* select over cancellation, the timer and the watcher's channel.  It is   *)
(* the only caller of Process, Wait, SetConfig and Close.  The zone has no  *)
(* record yet: every create-or-update task lists and creates.              *)
(***************************************************************************)
DEFAULT_FREQUENCY == 3600
MINIMUM_FREQUENCY == 60
DEFAULT_TIMEOUT == 10
MINIMUM_TIMEOUT == 1
DEFAULT_WORKER_COUNT == 10
MINIMUM_WORKER_COUNT == 1
MAXIMUM_WORKER_COUNT == 100

\* strings.TrimSpace on the strings of the model
TrimSpace(str) ==
    CASE str = " " -> ""
      [] str = " 192.0.2.1 " -> "192.0.2.1"
      [] OTHER -> str

CfgBlankZone == Config(" ", "t1", TRUE, FALSE, <<Domain("d1", "nil")>>, 0, 0, 0)

\* what the configuration file can hold (<<>>: unreadable or not parsable)
Files == {<<>>, <<CfgA>>, <<CfgB>>, <<CfgWrongZone>>, <<CfgBlankZone>>}

\* config.LoadConfig: <<>> for an error, else the validated configuration
LoadConfig(file) ==
    IF file = <<>> THEN <<>>
    ELSE LET c == file[1]
             frequency == IF c.Frequency = 0 THEN DEFAULT_FREQUENCY
                          ELSE IF c.Frequency < MINIMUM_FREQUENCY
                          THEN MINIMUM_FREQUENCY
                          ELSE c.Frequency
             timeout == IF c.Timeout = 0 THEN DEFAULT_TIMEOUT
                        ELSE IF c.Timeout < MINIMUM_TIMEOUT THEN MINIMUM_TIMEOUT
                        ELSE c.Timeout
             workers == IF c.WorkerCount <= 0 THEN DEFAULT_WORKER_COUNT
                        ELSE IF c.WorkerCount < MINIMUM_WORKER_COUNT
                        THEN MINIMUM_WORKER_COUNT
                        ELSE IF c.WorkerCount > MAXIMUM_WORKER_COUNT
                        THEN MAXIMUM_WORKER_COUNT
                        ELSE c.WorkerCount
         IN IF \/ TrimSpace(c.ZoneID) = ""
               \/ TrimSpace(c.Token) = ""
               \/ Len(c.Domains) = 0
               \/ ~c.IPv4 /\ ~c.IPv6
            THEN <<>>
            ELSE <<[c EXCEPT !.ZoneID = TrimSpace(@), !.Token = TrimSpace(@),
                             !.Timeout = timeout, !.WorkerCount = workers,
                             !.Frequency = frequency]>>

InitDriver ==
    /\ mu = [r |-> 0, w |-> FALSE, ww |-> FALSE]
    /\ cfdns = EmptyCFDNS
    /\ pools = <<>>
    /\ gen = 0
    /\ ctxDone = FALSE
    /\ proc = IdleProc
    /\ setter = IdleSetter
    /\ tasks = <<>>
    /\ remote = NoRecords
    /\ cycle = 0
    /\ drv = [NoDriver EXCEPT !.pc = "start"]
    /\ \E f \in Files : fw = [NoFile EXCEPT !.file = f]
    /\ ip = NoIP

\* main up to the loop: LoadConfig (fatal on error), NewCFDNS, watchFile
Main_Start ==
    /\ drv.pc = "start"
    /\ LET l == LoadConfig(fw.file) IN
         IF l = <<>>
         THEN /\ drv' = [drv EXCEPT !.pc = "fatal"]
              /\ UNCHANGED <<cfdns, pools, gen, fw>>
         ELSE /\ cfdns' = NewCFDNS(l[1])
              /\ pools' = <<NewPool(l[1].WorkerCount)>>
              /\ gen' = 1
              /\ drv' = [drv EXCEPT !.pc = "loop", !.cfg = l, !.watcher = "chan"]
              /\ fw' = [fw EXCEPT !.running = TRUE]
    /\ UNCHANGED <<mu, ctxDone, proc, setter, tasks, remote, cycle, ip>>

\* the duration of the timer main creates at the top of the loop
Timer == drv.cfg[1].Frequency

\* top of the loop: a new timer, then cfdns.Process(ctx)
Main_Process ==
    /\ drv.pc = "loop"
    /\ drv.done = cycle
    /\ Process_RLock

\* mutant: the select is reached without waiting for Process and Wait
AtSelect_Early == drv.pc = "loop" /\ cycle >= drv.done

\* Process and Wait have returned: the driver is at its select
AtSelect == drv.pc = "loop" /\ proc.pc = "idle" /\ cycle > drv.done

\* mutant: on cancellation the driver goes round the loop again
Main_SelectDone_Continue ==
    /\ AtSelect
    /\ ctxDone
    /\ cycle < MaxCycles
    /\ drv' = [drv EXCEPT !.done = cycle]
    /\ UNCHANGED <<mu, cfdns, gen, pools, ctxDone, proc, setter, tasks, remote,
                   cycle, fw, ip>>

\* case <-ctx.Done(): stop the timer, cfdns.Close(), return
Main_SelectDone ==
    /\ AtSelect
    /\ ctxDone
    /\ drv' = [drv EXCEPT !.pc = "close"]
    /\ UNCHANGED <<mu, cfdns, gen, pools, ctxDone, proc, setter, tasks, remote,
                   cycle, fw, ip>>

\* case <-timer.C: continue
Main_SelectTimer ==
    /\ AtSelect
    /\ cycle < MaxCycles
    /\ drv' = [drv EXCEPT !.done = cycle]
    /\ UNCHANGED <<mu, cfdns, gen, pools, ctxDone, proc, setter, tasks, remote,
                   cycle, fw, ip>>

\* case _, ok := <-watcher: a notification leads to a reload; a closed channel
\* sets the watcher variable to nil and the loop continues
Main_SelectWatcher ==
    /\ AtSelect
    /\ cycle < MaxCycles
    /\ drv.watcher # "nil"
    /\ fw.ch > 0 \/ fw.closed
    /\ IF fw.ch > 0
       THEN /\ fw' = [fw EXCEPT !.ch = 0]
            /\ drv' = [drv EXCEPT !.pc = "reload"]
       ELSE /\ drv' = [drv EXCEPT !.watcher = "nil", !.done = cycle]
            /\ UNCHANGED fw
    /\ UNCHANGED <<mu, cfdns, gen, pools, ctxDone, proc, setter, tasks, remote,
                   cycle, ip>>

\* mutant: a configuration that cannot be loaded ends the process
Main_LoadConfig_Fatal ==
    /\ drv.pc = "reload"
    /\ LET l == LoadConfig(fw.file) IN
         IF l = <<>>
         THEN drv' = [drv EXCEPT !.pc = "fatal", !.failed = @ + 1]
         ELSE drv' = [drv EXCEPT !.pc = "setconfig", !.cfgNew = l]
    /\ UNCHANGED <<mu, cfdns, gen, pools, ctxDone, proc, setter, tasks, remote,
                   cycle, fw, ip>>

\* the reload: LoadConfig; on an error the loop continues
Main_LoadConfig ==
    /\ drv.pc = "reload"
    /\ LET l == LoadConfig(fw.file) IN
         IF l = <<>>
         THEN drv' = [drv EXCEPT !.pc = "loop", !.done = cycle, !.failed = @ + 1]
         ELSE drv' = [drv EXCEPT !.pc = "setconfig", !.cfgNew = l]
    /\ UNCHANGED <<mu, cfdns, gen, pools, ctxDone, proc, setter, tasks, remote,
                   cycle, fw, ip>>

\* cfdns.SetConfig(cfgNew) is called
Main_SetConfig ==
    /\ drv.pc = "setconfig"
    /\ setter.n = drv.sets
    /\ SetConfig_Begin(drv.cfgNew[1])

\* SetConfig has returned: an error is logged; the loop continues either way
\* (main's cfg variable is not assigned)
Main_Reloaded ==
    /\ drv.pc = "setconfig"
    /\ setter.pc = "idle"
    /\ setter.n > drv.sets
    /\ drv' = [drv EXCEPT !.pc = "loop", !.done = cycle, !.sets = setter.n,
                          !.failed = IF setter.ret = "err" THEN @ + 1 ELSE @]
    /\ UNCHANGED <<mu, cfdns, gen, pools, ctxDone, proc, setter, tasks, remote,
                   cycle, fw, ip>>

\* CFDNS.Close: cfdns.mu.Lock() is called
Close_Lock ==
    /\ drv.pc = "close"
    /\ ~mu.ww /\ ~mu.w
    /\ mu' = [mu EXCEPT !.ww = TRUE]
    /\ drv' = [drv EXCEPT !.pc = "closing"]
    /\ UNCHANGED <<cfdns, gen, pools, ctxDone, proc, setter, tasks, remote,
                   cycle, fw, ip>>

\* CFDNS.Close: the lock is acquired, the pool (if any) is aborted, the lock is
\* released; main returns
Close_Abort ==
    /\ drv.pc = "closing"
    /\ mu.r = 0 /\ ~mu.w
    /\ mu' = [mu EXCEPT !.ww = FALSE]
    /\ pools' = IF cfdns.pool # NilPool
                THEN [pools EXCEPT ![cfdns.pool].st = "aborted"]
                ELSE pools
    /\ drv' = [drv EXCEPT !.pc = "exit"]
    /\ UNCHANGED <<cfdns, gen, ctxDone, proc, setter, tasks, remote, cycle, fw, ip>>

\* the configuration file is edited (or removed) while the driver runs
File_Edit ==
    /\ fw.running
    /\ drv.pc \notin {"exit", "fatal"}
    /\ fw.edits < MaxSwaps
    /\ \E f \in Files \ {fw.file} :
          fw' = [fw EXCEPT !.file = f, !.edits = @ + 1, !.dirty = TRUE]
    /\ UNCHANGED <<mu, cfdns, gen, pools, ctxDone, proc, setter, tasks, remote,
                   cycle, drv, ip>>

\* watchFile, case <-t.C: the signature changed, it is stored and a
\* notification is sent without blocking (dropped when one is pending)
WatchFile_Notify ==
    /\ fw.running /\ ~fw.closed
    /\ fw.dirty
    /\ fw' = [fw EXCEPT !.dirty = FALSE, !.ch = 1]
    /\ UNCHANGED <<mu, cfdns, gen, pools, ctxDone, proc, setter, tasks, remote,
                   cycle, drv, ip>>

\* watchFile, case <-ctx.Done(): the goroutine returns and closes the channel
WatchFile_Stop ==
    /\ fw.running /\ ~fw.closed
    /\ ctxDone
    /\ fw' = [fw EXCEPT !.closed = TRUE]
    /\ UNCHANGED <<mu, cfdns, gen, pools, ctxDone, proc, setter, tasks, remote,
                   cycle, drv, ip>>

Task_StartAny == \E i \in DOMAIN tasks : Task_Start(i)
Task_ListZonesAny == \E i \in DOMAIN tasks : Task_ListZones(i)
Task_GetPublicIPAny == \E i \in DOMAIN tasks : Task_GetPublicIP(i)
GetRecords_RLockAny == \E i \in DOMAIN tasks : GetRecords_RLock(i)
GetRecords_ListAny == \E i \in DOMAIN tasks : GetRecords_List(i)
CheckAndUpdate_LoadAny == \E i \in DOMAIN tasks : CheckAndUpdate_Load(i)
CheckAndUpdate_CreateAny == \E i \in DOMAIN tasks : CheckAndUpdate_Create(i)

NextDriver ==
    \/ Main_Start
    \/ Main_Process
    \/ ZoneIsValid_Submit
    \/ ZoneIsValid_Await
    \/ GetPublicIPs_Submit
    \/ GetPublicIPs_Await
    \/ Process_Submit
    \/ Process_AwaitFuts
    \/ Wait_RLock
    \/ Wait_Idle
    \/ Main_SelectDone
    \/ Main_SelectTimer
    \/ Main_SelectWatcher
    \/ Main_LoadConfig
    \/ Main_SetConfig
    \/ SetConfig_Acquire
    \/ SetConfig_NewAPI
    \/ SetConfig_ClosePrev
    \/ SetConfig_NewPool
    \/ SetConfig_Install
    \/ Main_Reloaded
    \/ Close_Lock
    \/ Close_Abort
    \/ Cancel
    \/ File_Edit
    \/ WatchFile_Notify
    \/ WatchFile_Stop
    \/ Task_StartAny
    \/ Task_ListZonesAny
    \/ Task_GetPublicIPAny
    \/ GetRecords_RLockAny
    \/ GetRecords_ListAny
    \/ CheckAndUpdate_LoadAny
    \/ CheckAndUpdate_CreateAny

\* a step of the program: of the driver, of SetConfig and Close, of the
\* watcher's shutdown or of a worker (not of the environment: Cancel,
\* File_Edit, the timer and the watcher's poll)
Program ==
    \/ Main_Start \/ Main_Process
    \/ ZoneIsValid_Submit \/ ZoneIsValid_Await
    \/ GetPublicIPs_Submit \/ GetPublicIPs_Await
    \/ Process_Submit \/ Process_AwaitFuts
    \/ Wait_RLock \/ Wait_Idle
    \/ Main_LoadConfig \/ Main_SetConfig \/ Main_Reloaded
    \/ SetConfig_Acquire \/ SetConfig_NewAPI \/ SetConfig_ClosePrev
    \/ SetConfig_NewPool \/ SetConfig_Install
    \/ Close_Lock \/ Close_Abort \/ WatchFile_Stop
    \/ Task_StartAny \/ Task_ListZonesAny \/ Task_GetPublicIPAny
    \/ GetRecords_RLockAny \/ GetRecords_ListAny
    \/ CheckAndUpdate_LoadAny
    \/ CheckAndUpdate_CreateAny

\* the program does not stop while one of its steps is possible, and a select
\* that finds the context cancelled again and again takes that case in the end
FairDriver == WF_vars(Program) /\ SF_vars(Main_SelectDone)

SpecDriver == InitDriver /\ [][NextDriver]_vars /\ FairDriver

(***************************************************************************)
(* SpecWatch: watchFile.  The goroutine takes the file's signature when it *)
(* starts, then at every tick compares the signature it holds with the     *)
(* file's and notifies through a channel of capacity 1; it returns, and    *)
(* closes the channel, when the context is cancelled.  Here fw holds the   *)
(* file's signature (sig), the goroutine's fileSig (base), its position    *)
(* (pc), the channel (ch, closed) and, as history, the number of polls,    *)
(* the number of sends attempted (sent), and what the last poll saw and    *)
(* did (seen, last).                                                       *)
(***************************************************************************)
\* getFileSig returned nil
NilSig == <<>>

FileSig(mtime, size, inode) == [ModTime |-> mtime, Size |-> size, Inode |-> inode]

FileSigs == {FileSig(t, sz, ino) : t \in 0..MaxMTime, sz \in {10, 20}, ino \in {1, 2}}

\* mutant: any difference of the modification time counts
Changed_AnyMTime(fs1, fs2) ==
    IF fs1 = NilSig \/ fs2 = NilSig THEN FALSE
    ELSE \/ fs2.ModTime # fs1.ModTime
         \/ fs2.Size # fs1.Size
         \/ fs2.Inode # fs1.Inode

\* FileSig.Changed
Changed(fs1, fs2) ==
    IF fs1 = NilSig \/ fs2 = NilSig THEN FALSE
    ELSE \/ fs2.ModTime > fs1.ModTime
         \/ fs2.Size # fs1.Size
         \/ fs2.Inode # fs1.Inode

InitWatch ==
    /\ mu = [r |-> 0, w |-> FALSE, ww |-> FALSE]
    /\ cfdns = EmptyCFDNS
    /\ pools = <<>>
    /\ gen = 0
    /\ ctxDone = FALSE
    /\ proc = IdleProc
    /\ setter = IdleSetter
    /\ tasks = <<>>
    /\ remote = NoRecords
    /\ cycle = 0
    /\ drv = NoDriver
    /\ ip = NoIP
    /\ \E sig \in FileSigs \cup {NilSig} :
          fw = [sig |-> sig, base |-> NilSig, pc |-> "start", ch |-> 0,
                closed |-> FALSE, polls |-> 0, sent |-> 0, seen |-> NilSig,
                last |-> "", running |-> TRUE]

\* the file is written, replaced, removed or made unreadable
File_Change ==
    /\ \E sig \in (FileSigs \cup {NilSig}) \ {fw.sig} : fw' = [fw EXCEPT !.sig = sig]
    /\ UNCHANGED <<mu, cfdns, gen, pools, ctxDone, proc, setter, tasks, remote,
                   cycle, drv, ip>>

\* watchFile has been called and its goroutine starts:
\* fileSig := getFileSig(filename)
WatchFile_Begin ==
    /\ fw.running
    /\ fw.pc = "start"
    /\ fw' = [fw EXCEPT !.pc = "select", !.base = fw.sig]
    /\ UNCHANGED <<mu, cfdns, gen, pools, ctxDone, proc, setter, tasks, remote,
                   cycle, drv, ip>>

\* mutant: the first signature obtained at a tick is notified as a change
WatchFile_Tick_NotifyFirst ==
    /\ fw.pc = "select"
    /\ fw.polls < MaxPolls
    /\ LET new == fw.sig IN
         fw' = IF new = NilSig
               THEN [fw EXCEPT !.polls = @ + 1, !.seen = new, !.last = "skip"]
               ELSE IF fw.base = NilSig
               THEN [fw EXCEPT !.polls = @ + 1, !.seen = new, !.last = "seed",
                               !.base = new, !.sent = @ + 1, !.ch = 1]
               ELSE IF Changed(fw.base, new)
               THEN [fw EXCEPT !.polls = @ + 1, !.seen = new, !.base = new,
                               !.sent = @ + 1, !.ch = 1,
                               !.last = IF fw.ch = 0 THEN "emit" ELSE "drop"]
               ELSE [fw EXCEPT !.polls = @ + 1, !.seen = new, !.last = "same"]
    /\ UNCHANGED <<mu, cfdns, gen, pools, ctxDone, proc, setter, tasks, remote,
                   cycle, drv, ip>>

\* mutant: the send waits until the channel has room
WatchFile_Tick_Blocking ==
    /\ fw.pc = "select"
    /\ fw.polls < MaxPolls
    /\ LET new == fw.sig IN
         /\ (new # NilSig /\ Changed(fw.base, new)) => fw.ch = 0
         /\ fw' = IF new = NilSig
                  THEN [fw EXCEPT !.polls = @ + 1, !.seen = new, !.last = "skip"]
                  ELSE IF fw.base = NilSig
                  THEN [fw EXCEPT !.polls = @ + 1, !.seen = new, !.last = "seed",
                                  !.base = new]
                  ELSE IF Changed(fw.base, new)
                  THEN [fw EXCEPT !.polls = @ + 1, !.seen = new, !.base = new,
                                  !.sent = @ + 1, !.ch = 1, !.last = "emit"]
                  ELSE [fw EXCEPT !.polls = @ + 1, !.seen = new, !.last = "same"]
    /\ UNCHANGED <<mu, cfdns, gen, pools, ctxDone, proc, setter, tasks, remote,
                   cycle, drv, ip>>

\* mutant: the send succeeds only while the driver waits in its select (a
\* channel without buffer)
WatchFile_Tick_Unbuffered ==
    /\ fw.pc = "select"
    /\ fw.polls < MaxPolls
    /\ LET new == fw.sig IN
         fw' = IF new = NilSig
               THEN [fw EXCEPT !.polls = @ + 1, !.seen = new, !.last = "skip"]
               ELSE IF fw.base = NilSig
               THEN [fw EXCEPT !.polls = @ + 1, !.seen = new, !.last = "seed",
                               !.base = new]
               ELSE IF Changed(fw.base, new)
               THEN [fw EXCEPT !.polls = @ + 1, !.seen = new, !.base = new,
                               !.sent = @ + 1,
                               !.ch = IF AtSelect THEN 1 ELSE @,
                               !.last = IF fw.ch = 0 THEN "emit" ELSE "drop"]
               ELSE [fw EXCEPT !.polls = @ + 1, !.seen = new, !.last = "same"]
    /\ UNCHANGED <<mu, cfdns, gen, pools, ctxDone, proc, setter, tasks, remote,
                   cycle, drv, ip>>

\* case <-t.C: the signature is taken; nil: skip; no signature held: store it;
\* changed: store it and send without blocking (a full channel drops the send)
WatchFile_Tick ==
    /\ fw.pc = "select"
    /\ fw.polls < MaxPolls
    /\ LET new == fw.sig IN
         fw' = IF new = NilSig
               THEN [fw EXCEPT !.polls = @ + 1, !.seen = new, !.last = "skip"]
               ELSE IF fw.base = NilSig
               THEN [fw EXCEPT !.polls = @ + 1, !.seen = new, !.last = "seed",
                               !.base = new]
               ELSE IF Changed(fw.base, new)
               THEN [fw EXCEPT !.polls = @ + 1, !.seen = new, !.base = new,
                               !.sent = @ + 1, !.ch = 1,
                               !.last = IF fw.ch = 0 THEN "emit" ELSE "drop"]
               ELSE [fw EXCEPT !.polls = @ + 1, !.seen = new, !.last = "same"]
    /\ UNCHANGED <<mu, cfdns, gen, pools, ctxDone, proc, setter, tasks, remote,
                   cycle, drv, ip>>

\* mutant: the goroutine returns without closing the channel
WatchFile_Return_NoClose ==
    /\ fw.pc = "select"
    /\ ctxDone
    /\ fw' = [fw EXCEPT !.pc = "done"]
    /\ UNCHANGED <<mu, cfdns, gen, pools, ctxDone, proc, setter, tasks, remote,
                   cycle, drv, ip>>

\* case <-ctx.Done(): return; the deferred close(ch) runs
WatchFile_Return ==
    /\ fw.pc = "select"
    /\ ctxDone
    /\ fw' = [fw EXCEPT !.pc = "done", !.closed = TRUE]
    /\ UNCHANGED <<mu, cfdns, gen, pools, ctxDone, proc, setter, tasks, remote,
                   cycle, drv, ip>>

\* the channel watchFile returns, seen from the goroutine: its reader takes
\* the notification it holds, at any time (a receive from the closed, empty
\* channel changes nothing of the channel).  The reader is not part of this
\* specification; SpecReload has it (main's select).
Chan_Receive ==
    /\ fw.ch > 0
    /\ fw' = [fw EXCEPT !.ch = 0]
    /\ UNCHANGED <<mu, cfdns, gen, pools, ctxDone, proc, setter, tasks, remote,
                   cycle, drv, ip>>

NextWatch ==
    \/ File_Change
    \/ WatchFile_Begin
    \/ WatchFile_Tick
    \/ WatchFile_Return
    \/ Chan_Receive
    \/ Cancel

\* the goroutine runs, and its select takes the cancellation case once the
\* context is cancelled (the ticker is ready only once per interval)
SpecWatch ==
    InitWatch /\ [][NextWatch]_vars
        /\ WF_vars(WatchFile_Begin) /\ WF_vars(WatchFile_Return)

(***************************************************************************)
(* SpecReload: func main with the goroutine of watchFile.  The driver is   *)
(* that of SpecDriver; the watcher is that of SpecWatch, started by main;  *)
(* the file has a content (what LoadConfig reads) and a signature (what    *)
(* getFileSig reads), and a write changes both.                            *)
(***************************************************************************)
FileState(file, sig) == [file |-> file, sig |-> sig]

\* the states of the configuration file: two valid configurations, and the
\* file removed (LoadConfig and getFileSig both fail)
FileStates ==
    {FileState(<<CfgA>>, FileSig(0, 10, 1)),
     FileState(<<CfgB>>, FileSig(1, 20, 1)),
     FileState(<<>>, NilSig)}

InitReload ==
    /\ mu = [r |-> 0, w |-> FALSE, ww |-> FALSE]
    /\ cfdns = EmptyCFDNS
    /\ pools = <<>>
    /\ gen = 0
    /\ ctxDone = FALSE
    /\ proc = IdleProc
    /\ setter = IdleSetter
    /\ tasks = <<>>
    /\ remote = NoRecords
    /\ cycle = 0
    /\ drv = [NoDriver EXCEPT !.pc = "start"]
    /\ ip = NoIP
    /\ fw = [file |-> <<CfgA>>, sig |-> FileSig(0, 10, 1), edits |-> 0,
             dirty |-> FALSE, running |-> FALSE, base |-> NilSig,
             pc |-> "start", ch |-> 0, closed |-> FALSE, polls |-> 0,
             sent |-> 0, seen |-> NilSig, last |-> ""]

\* the configuration file is written, replaced or removed while the driver
\* runs
File_Write ==
    /\ fw.running
    /\ drv.pc \notin {"exit", "fatal"}
    /\ fw.edits < MaxSwaps + 1
    /\ \E st \in FileStates :
          /\ st.file # fw.file
          /\ fw' = [fw EXCEPT !.file = st.file, !.sig = st.sig, !.edits = @ + 1]
    /\ UNCHANGED <<mu, cfdns, gen, pools, ctxDone, proc, setter, tasks, remote,
                   cycle, drv, ip>>

NextReload ==
    \/ Main_Start
    \/ Main_Process
    \/ ZoneIsValid_Submit
    \/ ZoneIsValid_Await
    \/ GetPublicIPs_Submit
    \/ GetPublicIPs_Await
    \/ Process_Submit
    \/ Process_AwaitFuts
    \/ Wait_RLock
    \/ Wait_Idle
    \/ Main_SelectDone
    \/ Main_SelectTimer
    \/ Main_SelectWatcher
    \/ Main_LoadConfig
    \/ Main_SetConfig
    \/ SetConfig_Acquire
    \/ SetConfig_NewAPI
    \/ SetConfig_ClosePrev
    \/ SetConfig_NewPool
    \/ SetConfig_Install
    \/ Main_Reloaded
    \/ Close_Lock
    \/ Close_Abort
    \/ Cancel
    \/ File_Write
    \/ WatchFile_Begin
    \/ WatchFile_Tick
    \/ WatchFile_Return
    \/ Task_StartAny
    \/ Task_ListZonesAny
    \/ Task_GetPublicIPAny
    \/ GetRecords_RLockAny
    \/ GetRecords_ListAny
    \/ CheckAndUpdate_LoadAny
    \/ CheckAndUpdate_CreateAny

\* a step of the program (not of the environment: Cancel, File_Write, the
\* timer and the ticker)
ProgramReload ==
    \/ Main_Start \/ Main_Process
    \/ ZoneIsValid_Submit \/ ZoneIsValid_Await
    \/ GetPublicIPs_Submit \/ GetPublicIPs_Await
    \/ Process_Submit \/ Process_AwaitFuts
    \/ Wait_RLock \/ Wait_Idle
    \/ Main_LoadConfig \/ Main_SetConfig \/ Main_Reloaded
    \/ SetConfig_Acquire \/ SetConfig_NewAPI \/ SetConfig_ClosePrev
    \/ SetConfig_NewPool \/ SetConfig_Install
    \/ Close_Lock \/ Close_Abort
    \/ WatchFile_Begin \/ WatchFile_Return
    \/ Task_StartAny \/ Task_ListZonesAny \/ Task_GetPublicIPAny
    \/ GetRecords_RLockAny \/ GetRecords_ListAny
    \/ CheckAndUpdate_LoadAny
    \/ CheckAndUpdate_CreateAny

\* the program does not stop while one of its steps is possible, and a select
\* that finds a notification pending again and again takes that case in the
\* end
SpecReload ==
    InitReload /\ [][NextReload]_vars
        /\ WF_vars(ProgramReload) /\ SF_vars(Main_SelectWatcher)

(***************************************************************************)
(* SpecIP: one call of ipget.getPublicIP for the IPv4 services.  The       *)
(* services are shuffled, then asked in turn; each request (getSmallText)  *)
(* ends in a context error, another error, or a body.  ip holds the        *)
(* shuffled order, the position k, the services asked (tried), what each   *)
(* request returned (got) and the result of the call (val, err).           *)
(***************************************************************************)
ipv4Services == <<"https://api.ipify.org", "https://ipv4.icanhazip.com",
                  "https://v4.ident.me">>

\* shuffle: the orders rand.Shuffle can give
Shuffles(services) ==
    {[i \in DOMAIN services |-> services[f[i]]] :
        f \in {g \in [DOMAIN services -> DOMAIN services] :
                 \A a, b \in DOMAIN services : a # b => g[a] # g[b]}}

\* what a request can meet: a context error (deadline or cancellation), a
\* transport error, a status that is not 200, or a body
Responses ==
    {[kind |-> "ctxerr", raw |-> ""], [kind |-> "neterr", raw |-> ""],
     [kind |-> "status", raw |-> ""]}
    \cup {[kind |-> "body", raw |-> b] :
            b \in {" ", "<html>", "192.0.2.1", " 192.0.2.1 ", "2001:DB8::1"}}

\* getSmallText: the trimmed body, or an error
getSmallText(resp) ==
    CASE resp.kind = "ctxerr" -> [text |-> "", err |-> "ctx"]
      [] resp.kind = "neterr" -> [text |-> "", err |-> "net"]
      [] resp.kind = "status" -> [text |-> "", err |-> "status"]
      [] OTHER -> [text |-> TrimSpace(resp.raw), err |-> ""]

\* strToIP(ipStr), then ip.String(): "" when net.ParseIP gives nil
strToIP(ipStr) ==
    CASE ipStr = "192.0.2.1" -> "192.0.2.1"
      [] ipStr = "2001:DB8::1" -> "2001:db8::1"
      [] OTHER -> ""

InitIP ==
    /\ mu = [r |-> 0, w |-> FALSE, ww |-> FALSE]
    /\ cfdns = EmptyCFDNS
    /\ pools = <<>>
    /\ gen = 0
    /\ ctxDone = FALSE
    /\ proc = IdleProc
    /\ setter = IdleSetter
    /\ tasks = <<>>
    /\ remote = NoRecords
    /\ cycle = 0
    /\ drv = NoDriver
    /\ fw = NoFile
    /\ ip = [pc |-> "start", order |-> <<>>, k |-> 0, tried |-> <<>>,
             got |-> <<>>, val |-> "", err |-> ""]

\* services = shuffle(services)
IP_Shuffle ==
    /\ ip.pc = "start"
    /\ \E order \in Shuffles(ipv4Services) :
          ip' = [ip EXCEPT !.pc = "loop", !.order = order, !.k = 1]
    /\ UNCHANGED <<mu, cfdns, gen, pools, ctxDone, proc, setter, tasks, remote,
                   cycle, drv, fw>>

\* the responses a request can meet now: under a cancelled context the
\* request fails with the context's error
ResponsesNow ==
    IF ctxDone THEN {r \in Responses : r.kind = "ctxerr"} ELSE Responses

\* mutant: any error of a request ends the call
IP_Request_StopOnError ==
    /\ ip.pc = "loop"
    /\ \E resp \in ResponsesNow :
          LET r == getSmallText(resp)
              asked == [ip EXCEPT !.tried = Append(@, ip.order[ip.k]),
                                  !.got = Append(@, r)]
              next == IF ip.k = Len(ip.order)
                      THEN [asked EXCEPT !.pc = "done", !.err = "none"]
                      ELSE [asked EXCEPT !.k = @ + 1]
          IN ip' = IF r.err # ""
                   THEN [asked EXCEPT !.pc = "done", !.err = r.err]
                   ELSE IF strToIP(r.text) # ""
                   THEN [asked EXCEPT !.pc = "done", !.val = strToIP(r.text)]
                   ELSE next
    /\ UNCHANGED <<mu, cfdns, gen, pools, ctxDone, proc, setter, tasks, remote,
                   cycle, drv, fw>>

\* mutant: a context error is skipped like any other error
IP_Request_SkipCtx ==
    /\ ip.pc = "loop"
    /\ \E resp \in ResponsesNow :
          LET r == getSmallText(resp)
              asked == [ip EXCEPT !.tried = Append(@, ip.order[ip.k]),
                                  !.got = Append(@, r)]
              next == IF ip.k = Len(ip.order)
                      THEN [asked EXCEPT !.pc = "done", !.err = "none"]
                      ELSE [asked EXCEPT !.k = @ + 1]
          IN ip' = IF r.err # ""
                   THEN next
                   ELSE IF strToIP(r.text) # ""
                   THEN [asked EXCEPT !.pc = "done", !.val = strToIP(r.text)]
                   ELSE next
    /\ UNCHANGED <<mu, cfdns, gen, pools, ctxDone, proc, setter, tasks, remote,
                   cycle, drv, fw>>

\* one iteration of the loop over the services: the request; a context error
\* is returned, any other error or a body that is no IP address goes on to the
\* next service, an IP address is returned; after the last service the call
\* fails ("could not retrieve public IP address")
IP_Request ==
    /\ ip.pc = "loop"
    /\ \E resp \in ResponsesNow :
          LET r == getSmallText(resp)
              asked == [ip EXCEPT !.tried = Append(@, ip.order[ip.k]),
                                  !.got = Append(@, r)]
              next == IF ip.k = Len(ip.order)
                      THEN [asked EXCEPT !.pc = "done", !.err = "none"]
                      ELSE [asked EXCEPT !.k = @ + 1]
          IN ip' = IF r.err # ""
                   THEN IF r.err = "ctx"
                        THEN [asked EXCEPT !.pc = "done", !.err = "ctx"]
                        ELSE next
                   ELSE IF strToIP(r.text) # ""
                   THEN [asked EXCEPT !.pc = "done", !.val = strToIP(r.text)]
                   ELSE next
    /\ UNCHANGED <<mu, cfdns, gen, pools, ctxDone, proc, setter, tasks, remote,
                   cycle, drv, fw>>

NextIP ==
    \/ IP_Shuffle
    \/ IP_Request
    \/ Cancel

SpecIP == InitIP /\ [][NextIP]_vars

(***************************************************************************)
(* SpecClose: the cycle activity of one instance and a caller of           *)
(* CFDNS.Close.  Close may come at any time; Process and Wait may be       *)
(* called after it.                                                        *)
(***************************************************************************)
InitClose ==
    /\ mu = [r |-> 0, w |-> FALSE, ww |-> FALSE]
    /\ \E c \in InitConfigs :
          /\ cfdns = NewCFDNS(c)
          /\ pools = <<NewPool(c.WorkerCount)>>
    /\ gen = 1
    /\ ctxDone = FALSE
    /\ proc = IdleProc
    /\ setter = IdleSetter
    /\ tasks = <<>>
    /\ remote \in {NoRecords, TwoStale}
    /\ cycle = 0
    /\ drv = [NoDriver EXCEPT !.pc = "close"]
    /\ fw = NoFile
    /\ ip = NoIP

NextClose ==
    \/ Process_RLock
    \/ ZoneIsValid_Submit
    \/ ZoneIsValid_Await
    \/ GetPublicIPs_Submit
    \/ GetPublicIPs_Await
    \/ Process_Submit
    \/ Process_AwaitFuts
    \/ Wait_RLock
    \/ Wait_Idle
    \/ Cancel
    \/ Close_Lock
    \/ Close_Abort
    \/ \E i \in DOMAIN tasks : Task_Start(i)
    \/ \E i \in DOMAIN tasks : Task_Reject(i)
    \/ \E i \in DOMAIN tasks : Task_ListZones(i)
    \/ \E i \in DOMAIN tasks : Task_GetPublicIP(i)
    \/ \E i \in DOMAIN tasks : GetRecords_RLock(i)
    \/ \E i \in DOMAIN tasks : GetRecords_List(i)
    \/ \E i \in DOMAIN tasks : CheckAndUpdate_Load(i)
    \/ \E i \in DOMAIN tasks : CheckAndUpdate_Create(i)
    \/ \E i \in DOMAIN tasks : CheckAndUpdate_Record(i)

SpecClose == InitClose /\ [][NextClose]_vars

(***************************************************************************)
(* SpecNew: NewCFDNS on any configuration, then a caller of Wait and a     *)
(* caller of SetConfig on the instance it returned.  drv.pc says how       *)
(* NewCFDNS returned: "made" with a nil error, "fatal" with an error.      *)
(***************************************************************************)
InitNew ==
    /\ mu = [r |-> 0, w |-> FALSE, ww |-> FALSE]
    /\ \E c \in Configs :
          /\ cfdns = NewCFDNS(c)
          /\ pools = IF NewCFDNS(c).pool = NilPool THEN <<>>
                     ELSE <<NewPool(c.WorkerCount)>>
          /\ gen = IF NewCFDNS(c).pool = NilPool THEN 0 ELSE 1
          /\ drv = [NoDriver EXCEPT
                      !.pc = IF NewCFDNS_Err(c) = "nil" THEN "made" ELSE "fatal"]
    /\ ctxDone = FALSE
    /\ proc = IdleProc
    /\ setter = IdleSetter
    /\ tasks = <<>>
    /\ remote = NoRecords
    /\ cycle = 0
    /\ fw = NoFile
    /\ ip = NoIP

\* cfdns.Wait() is called
New_Wait ==
    /\ drv.pc = "made"
    /\ proc.pc = "idle"
    /\ cycle < MaxCycles
    /\ proc' = [proc EXCEPT !.pc = "wait"]
    /\ UNCHANGED <<mu, cfdns, gen, pools, ctxDone, setter, tasks, remote,
                   cycle, drv, fw, ip>>

NextNew ==
    \/ New_Wait
    \/ Wait_RLock
    \/ Wait_Idle
    \/ Cancel
    \/ SetConfig_Nil
    \/ SetConfig_Lock
    \/ SetConfig_Acquire
    \/ SetConfig_NewAPI
    \/ SetConfig_ClosePrev
    \/ SetConfig_NewPool
    \/ SetConfig_Install

SpecNew == InitNew /\ [][NextNew]_vars

(***************************************************************************)
(* Properties                                                              *)
(***************************************************************************)
CUTasks == {i \in DOMAIN tasks : tasks[i].kind = "cu"}

CallsOf(t, op) == {k \in DOMAIN t.calls : t.calls[k].op = op}

\* C1: the pool a cycle submitted its tasks to is not closed while a task of
\* that cycle is still pending or running (no use-after-close).
C1_NoCloseWhilePending ==
    \A i \in DOMAIN tasks :
        Pending(tasks[i]) => pools[tasks[i].pool].st # "closed"

\* C2: a SetConfig call that begins while a cycle (Process, then Wait) is
\* active neither swaps the configuration nor closes the pool until that
\* cycle's Wait has returned: until then the instance and its pools are as
\* they were when the call began.
C2_SetConfigWaitsForCycle ==
    (setter.began # 0 /\ cycle < setter.began) => Snapshot = setter.prev

\* C3 (as stated): the previous pool is closed only after the new client, the
\* new pool and the new configuration are installed: a closed pool is never
\* the installed one, and client and configuration are newer than it.
C3_CloseAfterSwap ==
    \A p \in DOMAIN pools :
        pools[p].st = "closed" =>
            cfdns.pool # p /\ cfdns.api.gen > p /\ cfdns.cfgGen > p

\* C3 (amended): SetConfig closes the previous pool under the exclusive lock
\* after the new API client is installed and before the new pool and the new
\* configuration are: at the close the installed pool is the one closed, the
\* client is the new one and the configuration is still the previous one.
C3_CloseBetweenClientAndPool ==
    [][\A p \in DOMAIN pools :
          (pools[p].st = "open" /\ pools'[p].st = "closed") =>
              /\ mu.w
              /\ cfdns.pool = p /\ cfdns'.pool = p
              /\ cfdns.api.gen = gen /\ cfdns.api.gen > p
              /\ cfdns.api.token = setter.arg[1].Token
              /\ cfdns.cfgGen = p /\ cfdns'.cfg = cfdns.cfg]_vars

C3_Witness ==
    /\ setter.pc = "newpool"
    /\ pools[cfdns.pool].st = "closed"
    /\ cfdns.api.gen > cfdns.cfgGen

\* C4: every create-or-update task makes all its calls with the client and
\* the zone id of one configuration generation.
C4_OneGenerationPerTask ==
    \A i \in CUTasks :
        \A a, b \in DOMAIN tasks[i].calls :
            /\ tasks[i].calls[a].api = tasks[i].calls[b].api
            /\ tasks[i].calls[a].zgen = tasks[i].calls[a].api

\* C5: SetConfig with a configuration whose client cannot be constructed
\* returns an error and leaves configuration, clients, timeout and pool as
\* they were (the pool is not closed).
C5_FailedSetConfigKeepsState ==
    (setter.pc = "idle" /\ setter.arg # <<>>) =>
        /\ setter.arg[1].Token = "" <=> setter.ret = "err"
        /\ setter.ret = "err" => Snapshot = setter.prev

C5_Witness ==
    /\ setter.pc = "idle"
    /\ setter.ret = "err"
    /\ setter.arg # <<>>
    /\ pools[cfdns.pool].st = "open"

\* C6: SetConfig(nil) returns an error and leaves configuration, client and
\* pool untouched.
C6_NilReturnsError ==
    (setter.pc = "idle" /\ setter.n > 0 /\ setter.arg = <<>>) =>
        /\ setter.ret = "err"
        /\ Snapshot = setter.prev

\* the record already has the resolved address and a proxied setting that
\* agrees with the domain's (an unspecified flag agrees with anything)
UpToDate(r, t) ==
    /\ r.Content = t.addr
    /\ ~(r.Proxied # "nil" /\ t.dom.Proxied # "nil" /\ r.Proxied # t.dom.Proxied)

RemoteOf(t) == remote[<<t.dom.Hostname, t.type>>]

\* C7: when every existing record of the domain and type is up to date, no
\* update and no create call is issued.
C7_Idempotent ==
    \A i \in CUTasks :
        LET t == tasks[i] IN
        (Len(RemoteOf(t)) > 0 /\ \A k \in DOMAIN RemoteOf(t) : UpToDate(RemoteOf(t)[k], t))
            => CallsOf(t, "update") = {} /\ CallsOf(t, "create") = {}

C7_Witness ==
    \E i \in CUTasks :
        LET t == tasks[i] IN
        /\ t.st = "done" /\ t.res = "ok"
        /\ Len(RemoteOf(t)) = 2
        /\ \A k \in DOMAIN RemoteOf(t) : UpToDate(RemoteOf(t)[k], t)
        /\ RemoteOf(t)[1].Proxied = "nil" /\ t.dom.Proxied = "true"
        /\ Len(t.calls) = 1

\* C8: when the list call succeeds and returns no record, exactly one create
\* call is issued, with the hostname, the type, the resolved address and the
\* domain's proxied setting, and no update call.
C8_CreateWhenNone ==
    \A i \in CUTasks :
        LET t == tasks[i] IN
        (t.st = "done" /\ Len(t.calls) > 0 /\ t.calls[1].ok /\ Len(RemoteOf(t)) = 0)
            => /\ Cardinality(CallsOf(t, "create")) = 1
               /\ CallsOf(t, "update") = {}
               /\ \A k \in CallsOf(t, "create") :
                     /\ t.calls[k].host = t.dom.Hostname
                     /\ t.calls[k].type = t.type
                     /\ t.calls[k].content = t.addr
                     /\ t.calls[k].proxied = t.dom.Proxied

C8_Witness ==
    \E i \in CUTasks :
        LET t == tasks[i] IN
        /\ t.st = "done" /\ t.res = "ok"
        /\ Len(RemoteOf(t)) = 0
        /\ t.dom.Proxied = "true"
        /\ CallsOf(t, "create") # {}

\* C9: with exactly one existing record, an update is issued if and only if
\* the content differs from the resolved address or both proxied flags are
\* specified and differ; it carries the record's identifier, the resolved
\* address and the domain's proxied setting; no create is issued.
C9_UpdateIffMismatch ==
    \A i \in CUTasks :
        LET t == tasks[i]
            r == RemoteOf(t)[1]
        IN (t.st = "done" /\ Len(t.calls) > 0 /\ t.calls[1].ok /\ Len(RemoteOf(t)) = 1)
            => /\ CallsOf(t, "create") = {}
               /\ Cardinality(CallsOf(t, "update")) <= 1
               /\ CallsOf(t, "update") # {} <=>
                     \/ r.Content # t.addr
                     \/ /\ r.Proxied # "nil" /\ t.dom.Proxied # "nil"
                        /\ r.Proxied # t.dom.Proxied
               /\ \A k \in CallsOf(t, "update") :
                     /\ t.calls[k].id = r.ID
                     /\ t.calls[k].content = t.addr
                     /\ t.calls[k].proxied = t.dom.Proxied

C9_Witness ==
    \E i \in CUTasks :
        LET t == tasks[i] IN
        /\ t.st = "done" /\ t.res = "ok"
        /\ Len(RemoteOf(t)) = 1
        /\ RemoteOf(t)[1].Content = t.addr
        /\ RemoteOf(t)[1].Proxied = "true" /\ t.dom.Proxied = "false"
        /\ CallsOf(t, "update") # {}

\* C10: with several existing records, every record that is not up to date
\* receives its own update call, whatever the other records are.
C10_EveryStaleRecordUpdated ==
    \A i \in CUTasks :
        LET t == tasks[i] IN
        (t.st = "done" /\ t.res = "ok" /\ Len(t.calls) > 0 /\ t.calls[1].ok)
            => \A k \in DOMAIN RemoteOf(t) :
                  ~UpToDate(RemoteOf(t)[k], t) =>
                      \E c \in CallsOf(t, "update") : t.calls[c].id = RemoteOf(t)[k].ID

\* the resolution future and the address of a family in the running cycle
FutOf(ty) == IF ty = RECORD_TYPE_IPV4 THEN proc.f4 ELSE proc.f6

AddrOf(ty) == IF ty = RECORD_TYPE_IPV4 THEN proc.ipv4 ELSE proc.ipv6

\* getPublicIPs has returned in the running cycle
Resolved == proc.pc \in {"submit", "awaitFuts", "wait", "waitIdle"}

\* C11: when the resolution of an enabled family fails in a cycle, the
\* family's address for that cycle is empty and no create-or-update task of
\* that family is submitted in that cycle; a task that is submitted carries
\* the address this cycle's own resolution task gave, never an earlier one.
C11_FailedFamilySkipped ==
    \A ty \in Types :
        (Resolved /\ FutOf(ty) # 0) =>
            /\ (tasks[FutOf(ty)].st = "done" /\ tasks[FutOf(ty)].res = "err")
                  => AddrOf(ty) = ""
            /\ AddrOf(ty) = "" => \A f \in proc.futs : tasks[f].type # ty
            /\ \A f \in proc.futs :
                  tasks[f].type = ty =>
                      /\ tasks[FutOf(ty)].res = "ok"
                      /\ tasks[f].addr \in tasks[FutOf(ty)].val

C11_Witness ==
    /\ cycle >= 1
    /\ ~ctxDone
    /\ proc.pc = "awaitFuts"
    /\ proc.f4 # 0 /\ tasks[proc.f4].res = "err"
    /\ proc.ipv6 # ""
    /\ proc.futs # {}

\* C12: when both families are enabled and one resolution fails while the
\* other succeeds, a create-or-update task of the resolved family, with the
\* resolved address, is submitted for every configured domain.
C12_OtherFamilyProceeds ==
    \A ty \in Types :
        LET other == CHOOSE o \in Types : o # ty IN
        (/\ proc.pc = "awaitFuts"
         /\ proc.f4 # 0 /\ proc.f6 # 0
         /\ AddrOf(other) = "" /\ AddrOf(ty) # "")
            => \A k \in DOMAIN cfdns.cfg.Domains :
                  \E f \in proc.futs :
                      /\ tasks[f].kind = "cu"
                      /\ tasks[f].dom = cfdns.cfg.Domains[k]
                      /\ tasks[f].type = ty
                      /\ tasks[f].addr = AddrOf(ty)

C12_Witness ==
    /\ proc.pc = "awaitFuts"
    /\ ~ctxDone
    /\ proc.f4 # 0 /\ proc.f6 # 0
    /\ tasks[proc.f6].res = "err" /\ proc.ipv6 = ""
    /\ tasks[proc.f4].res = "ok" /\ proc.ipv4 # ""
    /\ \E f \in proc.futs : tasks[f].type = RECORD_TYPE_IPV4

\* the tasks submitted by the cycle that ran last (or is running)
CycleTasks == IF proc.fz = 0 THEN {} ELSE proc.fz .. Len(tasks)

\* C13: once Process and the Wait that follows it have returned, every task
\* the cycle submitted has resolved.
C13_CycleTasksResolved ==
    proc.pc = "idle" => \A i \in CycleTasks : ~Pending(tasks[i])

\* a task fails exactly when it was refused by its pool or its own last call
\* failed
OwnOutcome(t) ==
    t.res = "err" <=> (Len(t.calls) = 0 \/ ~t.calls[Len(t.calls)].ok)

\* C14: a failed list, create or update call fails only its own task: when
\* Process returns (context not cancelled) every task of the cycle has run to
\* completion, each with the outcome of its own calls.
C14_FailureIsPerTask ==
    (proc.pc \in {"wait", "waitIdle", "idle"} /\ ~ctxDone) =>
        \A f \in proc.futs :
            /\ tasks[f].st = "done"
            /\ OwnOutcome(tasks[f])

C14_Witness ==
    /\ proc.pc = "wait"
    /\ ~ctxDone
    /\ \E f, g \in proc.futs :
          /\ tasks[f].res = "err" /\ Len(tasks[f].calls) > 0
          /\ tasks[g].res = "ok" /\ Len(tasks[g].calls) > 1

\* C15: when the context is cancelled while the create-or-update tasks of a
\* cycle are awaited, the await can return at once, whatever the tasks do.
C15_AwaitReturnsOnCancel ==
    (ctxDone /\ proc.pc = "awaitFuts") => ENABLED Process_AwaitFuts

C15_Witness ==
    /\ ctxDone
    /\ proc.pc = "wait"
    /\ \E f \in proc.futs : Pending(tasks[f])

\* C16: when the zone validation of a cycle gives false or an error, the
\* cycle submits nothing else (no resolution, no create-or-update task) and
\* Process returns: whatever follows the validation in a cycle follows a
\* zone listing that succeeded and contains the configured zone.
C16_InvalidZoneSkipsCycle ==
    (/\ proc.fz # 0
     /\ \/ proc.pc \in {"ips", "ipsAwait", "submit", "awaitFuts"}
        \/ Len(tasks) > proc.fz)
        => /\ tasks[proc.fz].st = "done"
           /\ tasks[proc.fz].res = "ok"
           /\ proc.zoneID \in tasks[proc.fz].val

C16_Witness ==
    /\ proc.pc = "wait"
    /\ ~ctxDone
    /\ mu.r = 0
    /\ proc.fz # 0 /\ Len(tasks) = proc.fz
    /\ tasks[proc.fz].res = "ok"
    /\ proc.zoneID \notin tasks[proc.fz].val

\* the zone of the configuration main loaded is not among the credential's
InvalidZone ==
    drv.cfg # <<>> /\ drv.cfg[1].ZoneID \notin ZonesVisible(drv.cfg[1].Token)

\* C17: when the zone of the configuration loaded at launch is not valid,
\* the process exits during startup and never enters the polling loop.
C17_InvalidZoneIsFatal ==
    InvalidZone => (drv.pc = "fatal" /\ proc.pc = "idle" /\ cycle = 0)

\* C18: once the context is cancelled while the driver is in its loop, the
\* driver eventually aborts the pool (Close) and returns.
C18_CancelLeadsToClose ==
    (ctxDone /\ drv.pc \in {"loop", "reload", "setconfig", "close", "closing"})
        ~> (drv.pc = "exit" /\ pools[cfdns.pool].st = "aborted")

C18_Witness ==
    /\ drv.pc = "exit"
    /\ ctxDone
    /\ cycle = MaxCycles
    /\ drv.sets > 0
    /\ pools[cfdns.pool].st = "aborted"

\* C19: once the context is cancelled the driver admits no new cycle: a
\* select that finds the context cancelled takes the cancellation case (to
\* Close and return), whatever else is ready, and neither goes round the loop
\* to another Process call nor starts a reload.
C19_NoCycleAfterCancel ==
    [][(AtSelect /\ ctxDone /\ drv' # drv) => drv'.pc = "close"]_vars

\* C20: a reload that fails (the file cannot be loaded or validated, or
\* SetConfig returns an error) leaves configuration, client and pool as they
\* were, and the driver goes on with its loop.
C20_FailedReloadKeepsRunning ==
    [][drv'.failed > drv.failed =>
          /\ cfdns' = cfdns /\ pools' = pools
          /\ drv.pc = "setconfig" => Snapshot = setter.prev
          /\ pools[cfdns.pool].st = "open"
          /\ drv'.pc = "loop" /\ drv'.done = cycle]_vars

C20_Witness ==
    /\ drv.failed > 0
    /\ ~ctxDone
    /\ proc.pc = "awaitFuts" /\ proc.futs # {}
    /\ cfdns.cfg = drv.cfg[1]
    /\ pools[cfdns.pool].st = "open"

\* a step of the watcher that polls the file
IsPoll == fw'.polls = fw.polls + 1

\* C21: the first signature the watcher obtains (at its start, or at the
\* first poll at which the file is readable) only becomes the baseline: no
\* send is attempted and the channel is left as it is.
C21_FirstObservationSeeds ==
    [][(fw.base = NilSig /\ (IsPoll \/ (fw.pc = "start" /\ fw'.pc = "select"))) =>
          /\ fw'.sent = fw.sent /\ fw'.ch = fw.ch
          /\ fw.sig # NilSig => fw'.base = fw.sig
          /\ fw.sig = NilSig => fw'.base = NilSig]_vars

C21_Witness ==
    /\ fw.last = "seed"
    /\ fw.polls = 2
    /\ fw.base # NilSig
    /\ fw.sent = 0 /\ fw.ch = 0

\* C22: at a poll with a baseline and a readable file a send is attempted
\* exactly when the modification time is later than the baseline's or the
\* size or the inode differs, and then the baseline becomes the new
\* signature, otherwise it stays; at a poll with an unreadable file nothing
\* is sent, the baseline stays and the watcher keeps running.
C22_DetectionRule ==
    [][IsPoll =>
          LET new == fw.sig
              base == fw.base
          IN /\ (base # NilSig /\ new # NilSig) =>
                   LET differs == \/ new.ModTime > base.ModTime
                                  \/ new.Size # base.Size
                                  \/ new.Inode # base.Inode
                   IN /\ fw'.sent = fw.sent + (IF differs THEN 1 ELSE 0)
                      /\ fw'.base = IF differs THEN new ELSE base
                      /\ differs => fw'.ch = 1
                      /\ ~differs => fw'.ch = fw.ch
             /\ new = NilSig =>
                   /\ fw'.sent = fw.sent /\ fw'.ch = fw.ch
                   /\ fw'.base = base /\ fw'.pc = "select"]_vars

C22_Witness ==
    /\ fw.last = "same"
    /\ fw.seen # NilSig /\ fw.seen # fw.base
    /\ fw.seen.ModTime < fw.base.ModTime
    /\ fw.sent > 0

\* C23: the channel never holds more than one notification and the watcher
\* never waits to send: with a notification pending it can still poll.
C23_AtMostOnePending ==
    /\ fw.ch <= 1
    /\ (fw.pc = "select" /\ fw.polls < MaxPolls) => ENABLED WatchFile_Tick

C23_Witness ==
    /\ fw.last = "drop"
    /\ fw.ch = 1
    /\ fw.sent = 2
    /\ fw.pc = "select"

\* C24: once the context is cancelled the watcher eventually returns and
\* closes the channel; after that nothing is polled or sent.
C24_CancelClosesStream ==
    /\ ctxDone ~> fw.closed
    /\ [][fw.closed =>
            /\ fw'.closed /\ fw'.pc = "done"
            /\ fw'.polls = fw.polls /\ fw'.sent = fw.sent
            /\ fw'.ch <= fw.ch]_vars

C24_Witness ==
    /\ fw.closed
    /\ ctxDone
    /\ fw.sent > 0
    /\ fw.ch = 1

\* the request j of the call returned a valid IP literal
GotAddress(j) == ip.got[j].err = "" /\ ip.got[j].text \in {"192.0.2.1", "2001:DB8::1"}

\* the canonical form of a literal
Canonical(text) == IF text = "2001:DB8::1" THEN "2001:db8::1" ELSE text

\* C25: the providers are asked one at a time in the shuffled order, each at
\* most once; a provider whose request fails without a context error, or
\* whose body is empty or no IP literal, is skipped; the result is the
\* (canonical) answer of the first provider that gives a valid literal, and
\* without a context error the call fails exactly when no provider does.
C25_FirstValidAnswer ==
    (ip.pc \in {"loop", "done"}) =>
        /\ Len(ip.order) = Len(ipv4Services)
        /\ {ip.order[j] : j \in DOMAIN ip.order}
              = {ipv4Services[j] : j \in DOMAIN ipv4Services}
        /\ Len(ip.got) = Len(ip.tried)
        /\ \A j \in DOMAIN ip.tried : ip.tried[j] = ip.order[j]
        /\ \A j \in DOMAIN ip.got :
              (GotAddress(j) \/ ip.got[j].err = "ctx") =>
                  ip.pc = "done" /\ j = Len(ip.got)
        /\ (ip.pc = "done" /\ \A j \in DOMAIN ip.got : ip.got[j].err # "ctx") =>
              IF \E j \in DOMAIN ip.got : GotAddress(j)
              THEN /\ ip.err = ""
                   /\ ip.val = Canonical(ip.got[Len(ip.got)].text)
              ELSE /\ ip.err # "" /\ ip.val = ""
                   /\ Len(ip.tried) = Len(ip.order)

C25_Witness ==
    /\ ip.pc = "done"
    /\ Len(ip.got) = 3
    /\ ip.got[1].err = "status"
    /\ ip.got[2].err = "" /\ ip.got[2].text = "<html>"
    /\ ip.val = "2001:db8::1" /\ ip.err = ""

\* C26: a request that fails with a context error ends the call with that
\* error at once: it is the last request made and no address is returned.
C26_ContextErrorAborts ==
    \A j \in DOMAIN ip.got :
        ip.got[j].err = "ctx" =>
            /\ ip.pc = "done" /\ ip.err = "ctx" /\ ip.val = ""
            /\ Len(ip.tried) = j

C26_Witness ==
    /\ ip.pc = "done"
    /\ ip.err = "ctx"
    /\ Len(ip.tried) = 2
    /\ ip.got[1].err = "net"
    /\ ~ctxDone

\* the pool of the instance has been closed or aborted
PoolGone == cfdns.pool # NilPool /\ pools[cfdns.pool].st # "open"

\* C27: a submission on a pool that was closed or aborted resolves with an
\* error at once and its task never runs; the caller sees the error: the zone
\* validation fails, Process returns without submitting anything else, so no
\* address resolution and no list, create or update task exists for the cycle.
C27_ClosedPoolSubmission ==
    [][PoolGone =>
          /\ \A i \in DOMAIN tasks' :
                i > Len(tasks) =>
                    /\ tasks'[i].kind = "zones"
                    /\ tasks'[i].st = "done" /\ tasks'[i].res = "err"
          /\ \A i \in DOMAIN tasks :
                (Len(tasks') = Len(tasks) /\ tasks[i].st = "done") =>
                    tasks'[i] = tasks[i]
          /\ (proc.pc = "zvAwait" /\ proc' # proc) =>
                (proc'.pc = "wait" /\ tasks' = tasks)]_vars

C27_Witness ==
    /\ PoolGone
    /\ drv.pc = "exit"
    /\ ~ctxDone
    /\ proc.pc = "zvAwait"
    /\ tasks[proc.fz].st = "done" /\ tasks[proc.fz].res = "err"

\* C28: once a reload has succeeded, the timer the driver creates for the
\* wait between cycles has the frequency of the configuration now installed.
C28_TimerUsesReloaded ==
    (drv.pc = "loop" /\ drv.sets > 0 /\ setter.ret = "nil") =>
        Timer = cfdns.cfg.Frequency

\* C29: an instance NewCFDNS returned with a nil error has its API client and
\* its pool set (before any later SetConfig).
C29_NilErrorMeansBuilt ==
    (drv.pc = "made" /\ setter.pc = "idle" /\ setter.n = 0) =>
        (cfdns.api # NilAPI /\ cfdns.pool # NilPool)

\* C30: Process is never left waiting for the read lock inside ZoneIsValid
\* behind a writer that itself waits for Process to release the read lock it
\* holds (a wait neither call can leave, so neither would return).
C30_NoCircularWait ==
    ~(proc.pc = "zv" /\ mu.r > 0 /\ mu.ww /\ ~ENABLED ZoneIsValid_Submit
        /\ ~ENABLED SetConfig_Acquire)

\* C31: the driver calls Process, Wait, SetConfig and Close one after the
\* other: while a reload, a SetConfig call or Close is under way, no Process
\* or Wait call is running, the Wait of the preceding cycle has returned and
\* every task of that cycle has ended; a cycle that begins finds no task of
\* an earlier cycle pending.
C31_DriverSequential ==
    /\ (setter.pc # "idle"
          \/ drv.pc \in {"reload", "setconfig", "close", "closing", "exit"}) =>
            /\ proc.pc = "idle"
            /\ cycle > drv.done
            /\ \A i \in DOMAIN tasks : ~Pending(tasks[i])
    /\ proc.pc = "zv" => tasks = <<>>

C31_Witness ==
    /\ drv.pc = "setconfig"
    /\ setter.pc = "close"
    /\ ~ctxDone
    /\ cycle > 0
    /\ \E i \in DOMAIN tasks : tasks[i].kind = "cu"

\* C32: no detected change is lost.  After a poll that detects a change a
\* notification is pending (sent now, or pending since an earlier detection);
\* a pending notification leaves the channel only by the driver's select
\* receiving it, which starts a reload; the reload loads the file as it is
\* then; and while the driver keeps running (the context is not cancelled,
\* the bound on the cycles is not reached) a pending notification leads to a
\* reload.
C32_NoDetectedChangeLost ==
    /\ [][/\ (IsPoll /\ fw.base # NilSig /\ Changed(fw.base, fw.sig)) =>
                (fw'.ch = 1 /\ fw'.base = fw.sig)
          /\ (fw.ch = 1 /\ fw'.ch = 0) => (AtSelect /\ drv'.pc = "reload")
          /\ (drv.pc = "reload" /\ drv'.pc # "reload") =>
                IF LoadConfig(fw.file) = <<>>
                THEN drv'.pc = "loop" /\ drv'.failed = drv.failed + 1
                ELSE drv'.pc = "setconfig" /\ drv'.cfgNew = LoadConfig(fw.file)]_vars
    /\ (fw.ch = 1) ~> (drv.pc = "reload" \/ ctxDone \/ cycle = MaxCycles)

C32_Witness ==
    /\ fw.last = "drop"
    /\ fw.seen = fw.sig
    /\ drv.pc = "setconfig"
    /\ drv.cfgNew = LoadConfig(fw.file)
    /\ ~ctxDone

====
